---- MODULE Spec2Model ----
(***************************************************************************)
(* Model of packages/astro/src/core/app/node.ts: NodeApp.createRequest     *)
(* (native IncomingMessage -> web Request) and NodeApp.writeResponse (web  *)
(* Response -> native ServerResponse), with the helpers they call.         *)
(*                                                                         *)
(* JavaScript strings are sequences of one-character strings, so that      *)
(* split(','), trim(), the /:\d+$/ test and template concatenation are     *)
(* computed as the code computes them.                                     *)
(***************************************************************************)
EXTENDS Integers, Sequences, FiniteSets, TLC

VARIABLES
    \* ---- writeResponse: the Response being streamed
    hasBody,        \* source.body is not null
    locked,         \* the body stream is already locked: getReader() throws
    source,         \* the chunks the body's underlying source produces, in order
    srcLeft,        \* the chunks it has not produced yet
    queue,          \* chunks enqueued in the stream and not read yet
    sstate,         \* the stream's state: "readable", "closed" or "errored"
    closeRequested, \* controller.close() was called (the queue may still hold chunks)
    \* ---- writeResponse: the ServerResponse written to
    calls,          \* the calls made on destination, in order
    buffered,       \* chunks handed to destination.write and not flushed yet
    connClosed,     \* destination has emitted 'close'
    onClose,        \* the 'close' handler of line 148 is registered
    \* ---- writeResponse: the async function itself
    pc,             \* "start", "awaitRead" (suspended at an await reader.read()), "done"
    readResult,     \* the awaited read promise: pending, a chunk, done, or rejected
    outcome,        \* "none", "returned" or "threw": how the call completed
    cancelCount,    \* calls of reader.cancel()
    logged,         \* console.error calls of the cancel().catch handler
    \* ---- writeResponse: what happened so far (history)
    failedAt,       \* -1, or Len(calls) when the catch block of line 166 was entered
    closedBeforeCall, \* 'close' was emitted before writeResponse was called
    closedEarly,    \* 'close' was emitted before destination was finalized
    writesAfterCancel, \* chunks written after reader.cancel() was called
    \* ---- createRequest and its helpers
    rpc,            \* "input" (arguments chosen) or "output" (function applied)
    req,            \* the native request: headers, socket, method, url, body
    opts,           \* { skipBody, trustDownstreamProxy }
    request,        \* the Request createRequest returned (or NoRequest)
    fwdIn,          \* argument of getFirstForwardedValue
    fwdOut          \* its result

streamVars == <<hasBody, locked, source, srcLeft, queue, sstate, closeRequested,
                calls, buffered, connClosed, onClose, pc, readResult, outcome,
                cancelCount, logged, failedAt, closedBeforeCall, closedEarly,
                writesAfterCancel>>
requestVars == <<rpc, req, opts, request, fwdIn, fwdOut>>
vars == <<streamVars, requestVars>>

----------------------------------------------------------------------------
(* Bounds of the model *)

\* longest body stream, in chunks
MaxChunks == 3

\* the chunk values a body stream may carry
Chunks == {"a", "b", "c"}

RECURSIVE SeqsUpTo(_, _)
\* all sequences over S of length at most n
SeqsUpTo(S, n) ==
    IF n = 0 THEN {<<>>}
    ELSE LET shorter == SeqsUpTo(S, n - 1)
         IN  shorter \cup {Append(s, x) : s \in {t \in shorter : Len(t) = n - 1}, x \in S}

----------------------------------------------------------------------------
(* writeResponse *)

Pending == [k |-> "pending", v |-> ""]
Done == [k |-> "done", v |-> ""]
Rejected == [k |-> "error", v |-> ""]
Chunk(c) == [k |-> "chunk", v |-> c]

\* the calls made on the ServerResponse
WriteHeadCall == [op |-> "writeHead", arg |-> ""]
WriteCall(c) == [op |-> "write", arg |-> c]
EndCall == [op |-> "end", arg |-> ""]
EndErrorCall == [op |-> "end", arg |-> "Internal server error"]

\* a reader that hands out the newest queued chunk instead of the oldest
ReaderReadNewest(q, st) ==
    IF q # <<>> THEN Chunk(q[Len(q)])
    ELSE IF st = "closed" THEN Done
    ELSE IF st = "errored" THEN Rejected
    ELSE Pending

\* reader.read() called now: a queued chunk, else done / rejected by the stream's
\* state, else a promise that stays pending
ReaderRead(q, st) ==
    IF q # <<>> THEN Chunk(Head(q))
    ELSE IF st = "closed" THEN Done
    ELSE IF st = "errored" THEN Rejected
    ELSE Pending

\* the stream's queue after that read
QueueAfterRead(q) == IF q # <<>> THEN Tail(q) ELSE q

\* the stream's state after that read: taking the last queued chunk of a stream
\* whose close was requested closes it
StateAfterRead(q, st, cr) ==
    IF q # <<>> /\ Tail(q) = <<>> /\ cr /\ st = "readable" THEN "closed" ELSE st

\* line 161: destination.write(result.value)
PumpWrite(cs, c) == Append(cs, WriteCall(c))

\* line 164: destination.end()
PumpEnd(cs) == Append(cs, EndCall)

\* a catch block that finalizes without the fallback body
CatchBlockPlainEnd(cs) == Append(cs, EndCall)

\* lines 166-168: catch { destination.end('Internal server error') }
CatchBlock(cs) == Append(cs, EndErrorCall)

\* a 'close' handler that never cancels the reader
CancelOnCloseNever(n) == n

\* lines 148-158: the 'close' handler calls reader.cancel() once; n counts the calls
CancelOnClose(n) == n + 1

\* a cancel() that leaves a pending read pending
ReadAfterCancelPending(r, st) == r

\* reader.cancel() settles a pending read with done; a settled one is left alone
ReadAfterCancel(r, st) ==
    IF st = "readable" /\ r.k = "pending" THEN Done ELSE r

\* the state after construction: a Response (with or without body) and a fresh
\* ServerResponse; writeResponse not called yet
StreamInit ==
    /\ hasBody \in BOOLEAN
    /\ locked \in BOOLEAN
    /\ source \in SeqsUpTo(Chunks, MaxChunks)
    /\ (~hasBody => source = <<>> /\ ~locked)
    /\ srcLeft = source
    /\ queue = <<>>
    /\ sstate = "readable"
    /\ closeRequested = FALSE
    /\ calls = <<>>
    /\ buffered = 0
    /\ connClosed = FALSE
    /\ onClose = FALSE
    /\ pc = "start"
    /\ readResult = Pending
    /\ outcome = "none"
    /\ cancelCount = 0
    /\ logged = 0
    /\ failedAt = -1
    /\ closedBeforeCall = FALSE
    /\ closedEarly = FALSE
    /\ writesAfterCancel = 0

\* lines 138-159: the synchronous part of writeResponse, up to the first await
WriteResponse ==
    /\ pc = "start"
    /\ UNCHANGED <<hasBody, locked, source, srcLeft, closeRequested, buffered,
                   connClosed, cancelCount, logged, closedBeforeCall, closedEarly,
                   writesAfterCancel, requestVars>>
    /\ \/ \* line 145: no body
          /\ ~hasBody
          /\ calls' = PumpEnd(<<WriteHeadCall>>)
          /\ pc' = "done"
          /\ outcome' = "returned"
          /\ UNCHANGED <<queue, sstate, onClose, readResult, failedAt>>
       \/ \* line 147 throws (the stream is locked): catch, line 167
          /\ hasBody /\ locked
          /\ calls' = CatchBlock(<<WriteHeadCall>>)
          /\ failedAt' = 1
          /\ pc' = "done"
          /\ outcome' = "returned"
          /\ UNCHANGED <<queue, sstate, onClose, readResult>>
       \/ \* lines 147-159: reader, 'close' handler, first read
          /\ hasBody /\ ~locked
          /\ calls' = <<WriteHeadCall>>
          /\ onClose' = TRUE
          /\ readResult' = ReaderRead(queue, sstate)
          /\ queue' = QueueAfterRead(queue)
          /\ sstate' = StateAfterRead(queue, sstate, closeRequested)
          /\ pc' = "awaitRead"
          /\ UNCHANGED <<outcome, failedAt>>

\* lines 159-168: the async function resumes with the settled read
Resume ==
    /\ pc = "awaitRead"
    /\ readResult.k # "pending"
    /\ UNCHANGED <<hasBody, locked, source, srcLeft, closeRequested, connClosed,
                   onClose, cancelCount, logged, closedBeforeCall, closedEarly,
                   requestVars>>
    /\ \/ \* lines 160-162: write the chunk, read the next one
          /\ readResult.k = "chunk"
          /\ calls' = PumpWrite(calls, readResult.v)
          /\ \/ buffered' = buffered      \* taken by the socket at once
             \/ buffered' = buffered + 1  \* kept in the connection's buffer
          /\ writesAfterCancel' = writesAfterCancel + (IF cancelCount > 0 THEN 1 ELSE 0)
          /\ readResult' = ReaderRead(queue, sstate)
          /\ queue' = QueueAfterRead(queue)
          /\ sstate' = StateAfterRead(queue, sstate, closeRequested)
          /\ UNCHANGED <<pc, outcome, failedAt>>
       \/ \* line 161 throws: catch, line 167
          /\ readResult.k = "chunk"
          /\ calls' = CatchBlock(calls)
          /\ failedAt' = Len(calls)
          /\ pc' = "done"
          /\ outcome' = "returned"
          /\ UNCHANGED <<buffered, writesAfterCancel, readResult, queue, sstate>>
       \/ \* line 160 false, line 164
          /\ readResult.k = "done"
          /\ calls' = PumpEnd(calls)
          /\ pc' = "done"
          /\ outcome' = "returned"
          /\ UNCHANGED <<buffered, writesAfterCancel, readResult, queue, sstate, failedAt>>
       \/ \* the awaited read rejected: catch, line 167
          /\ readResult.k = "error"
          /\ calls' = CatchBlock(calls)
          /\ failedAt' = Len(calls)
          /\ pc' = "done"
          /\ outcome' = "returned"
          /\ UNCHANGED <<buffered, writesAfterCancel, readResult, queue, sstate>>

\* destination emits 'close' (once per connection); lines 148-158 run if registered
Close ==
    /\ ~connClosed
    /\ connClosed' = TRUE
    /\ closedBeforeCall' = (pc = "start")
    /\ closedEarly' = (pc # "done")
    /\ UNCHANGED <<hasBody, locked, source, srcLeft, closeRequested, calls, buffered,
                   onClose, pc, outcome, failedAt, writesAfterCancel, requestVars>>
    /\ IF onClose
       THEN /\ cancelCount' = CancelOnClose(cancelCount)
            /\ readResult' = ReadAfterCancel(readResult, sstate)
            /\ queue' = <<>>
            /\ sstate' = IF sstate = "readable" THEN "closed" ELSE sstate
            /\ \/ \* cancel() rejects: always on an errored stream, on a readable one
                  \* when the source's cancel callback fails; line 153 logs it
                  /\ sstate \in {"readable", "errored"}
                  /\ logged' = logged + 1
               \/ \* cancel() fulfils
                  /\ sstate \in {"readable", "closed"}
                  /\ UNCHANGED logged
       ELSE UNCHANGED <<cancelCount, readResult, queue, sstate, logged>>

\* the connection flushes what it buffered
Drain ==
    /\ buffered > 0
    /\ buffered' = 0
    /\ UNCHANGED <<hasBody, locked, source, srcLeft, queue, sstate, closeRequested,
                   calls, connClosed, onClose, pc, readResult, outcome, cancelCount,
                   logged, failedAt, closedBeforeCall, closedEarly, writesAfterCancel,
                   requestVars>>

\* the body's source produces its next chunk: it settles a pending read, or is queued
Enqueue ==
    /\ hasBody
    /\ sstate = "readable" /\ ~closeRequested
    /\ srcLeft # <<>>
    /\ srcLeft' = Tail(srcLeft)
    /\ IF pc = "awaitRead" /\ readResult.k = "pending"
       THEN readResult' = Chunk(Head(srcLeft)) /\ UNCHANGED queue
       ELSE queue' = Append(queue, Head(srcLeft)) /\ UNCHANGED readResult
    /\ UNCHANGED <<hasBody, locked, source, sstate, closeRequested, calls, buffered,
                   connClosed, onClose, pc, outcome, cancelCount, logged, failedAt,
                   closedBeforeCall, closedEarly, writesAfterCancel, requestVars>>

\* the body's source finishes after its last chunk
Finish ==
    /\ hasBody
    /\ sstate = "readable" /\ ~closeRequested
    /\ srcLeft = <<>>
    /\ closeRequested' = TRUE
    /\ sstate' = IF queue = <<>> THEN "closed" ELSE sstate
    /\ readResult' = IF pc = "awaitRead" /\ readResult.k = "pending" THEN Done ELSE readResult
    /\ UNCHANGED <<hasBody, locked, source, srcLeft, queue, calls, buffered, connClosed,
                   onClose, pc, outcome, cancelCount, logged, failedAt,
                   closedBeforeCall, closedEarly, writesAfterCancel, requestVars>>

\* the body's source fails: the queue is dropped and a pending read rejects
StreamError ==
    /\ hasBody
    /\ sstate = "readable"
    /\ sstate' = "errored"
    /\ queue' = <<>>
    /\ readResult' = IF pc = "awaitRead" /\ readResult.k = "pending" THEN Rejected ELSE readResult
    /\ UNCHANGED <<hasBody, locked, source, srcLeft, closeRequested, calls, buffered,
                   connClosed, onClose, pc, outcome, cancelCount, logged, failedAt,
                   closedBeforeCall, closedEarly, writesAfterCancel, requestVars>>

StreamNext ==
    \/ WriteResponse
    \/ Resume
    \/ Close
    \/ Drain
    \/ Enqueue
    \/ Finish
    \/ StreamError

----------------------------------------------------------------------------
(* JavaScript values and strings *)

\* a header value / optional string: undefined, a string, or an array of strings
Undef == [t |-> "undef", s |-> <<>>, a |-> <<>>]
Str(s) == [t |-> "str", s |-> s, a |-> <<>>]
Arr(a) == [t |-> "arr", s |-> <<>>, a |-> a]

Digits == {"0", "1", "2", "3", "4", "5", "6", "7", "8", "9"}

\* what String.prototype.trim removes (of the characters the model draws)
Whitespace == {" "}

RECURSIVE Join(_)
\* Array.prototype.toString: the elements joined by ","
Join(a) ==
    IF a = <<>> THEN <<>>
    ELSE IF Len(a) = 1 THEN a[1]
    ELSE a[1] \o <<",">> \o Join(Tail(a))

\* toString() of a string or an array of strings
toString(v) == IF v.t = "arr" THEN Join(v.a) ELSE v.s

RECURSIVE LastToken(_)
\* s.split(',').at(-1): what follows the last comma
LastToken(s) ==
    IF s = <<>> \/ s[Len(s)] = "," THEN <<>>
    ELSE LastToken(SubSeq(s, 1, Len(s) - 1)) \o <<s[Len(s)]>>

RECURSIVE FirstToken(_)
\* s.split(',').at(0): what precedes the first comma
FirstToken(s) ==
    IF s = <<>> \/ Head(s) = "," THEN <<>>
    ELSE <<Head(s)>> \o FirstToken(Tail(s))

RECURSIVE TrimStart(_)
TrimStart(s) ==
    IF s # <<>> /\ Head(s) \in Whitespace THEN TrimStart(Tail(s)) ELSE s

RECURSIVE TrimEnd(_)
TrimEnd(s) ==
    IF s # <<>> /\ s[Len(s)] \in Whitespace THEN TrimEnd(SubSeq(s, 1, Len(s) - 1)) ELSE s

\* String.prototype.trim
Trim(s) == TrimEnd(TrimStart(s))

\* JavaScript truthiness of an optional string: undefined and '' are falsy
Truthy(v) == v.t = "arr" \/ (v.t = "str" /\ v.s # <<>>)

\* `${v}` in a template literal: undefined prints as the word
Template(v) ==
    IF v.t = "undef" THEN <<"u", "n", "d", "e", "f", "i", "n", "e", "d">>
    ELSE toString(v)

\* lines 195-201
getFirstForwardedValue(multiValueHeader) ==
    IF multiValueHeader.t = "undef" THEN Undef
    ELSE Str(Trim(FirstToken(toString(multiValueHeader))))

\* line 95: /:\d+$/.test(s)
EndsWithPort(s) ==
    \E i \in 1..Len(s) :
        /\ s[i] = ":"
        /\ i < Len(s)
        /\ \A j \in (i + 1)..Len(s) : s[j] \in Digits

\* req.headers[name]: the header bag holds each name once
Header(headers, name) ==
    IF \E i \in 1..Len(headers) : headers[i].name = name
    THEN headers[CHOOSE i \in 1..Len(headers) : headers[i].name = name].value
    ELSE Undef

\* a ?? b
Nullish(a, b) == IF a.t = "undef" THEN b ELSE a

----------------------------------------------------------------------------
(* makeRequestHeaders, makeRequestBody, createRequest *)

\* an array-valued header appended as one joined entry
AppendJoined(entries, name, items) ==
    IF items = <<>> THEN entries
    ELSE Append(entries, [name |-> name, value |-> Join(items)])

RECURSIVE AppendAll(_, _, _)
\* lines 210-212: headers.append(name, item) for each item of the array
AppendAll(entries, name, items) ==
    IF items = <<>> THEN entries
    ELSE AppendAll(Append(entries, [name |-> name, value |-> Head(items)]), name, Tail(items))

\* lines 206-215: one iteration of the loop over Object.entries(req.headers)
AppendHeader(entries, name, value) ==
    IF value.t = "undef" THEN entries
    ELSE IF value.t = "arr" THEN AppendAll(entries, name, value.a)
    ELSE Append(entries, [name |-> name, value |-> value.s])

RECURSIVE HeadersFrom(_, _)
HeadersFrom(entries, bag) ==
    IF bag = <<>> THEN entries
    ELSE HeadersFrom(AppendHeader(entries, bag[1].name, bag[1].value), Tail(bag))

\* lines 203-218: the header list of the Headers object, in append order
makeRequestHeaders(r) == HeadersFrom(<<>>, r.headers)

NoBody == [kind |-> "none", duplex |-> ""]

\* lines 244-255: which is "body" or "req", the iterable used
asyncIterableToBodyProps(which) == [kind |-> which, duplex |-> "half"]

\* lines 220-242. A body value is [type, size, asyncIter]: its typeof (null apart),
\* its length (string) or number of own enumerable keys (object), and whether it
\* has a Symbol.asyncIterator member
makeRequestBody(r) ==
    IF r.body.type # "undefined" /\ r.body.type = "string" /\ r.body.size > 0
    THEN [kind |-> "buffer-utf8", duplex |-> ""]
    ELSE IF r.body.type # "undefined" /\ r.body.type = "object" /\ r.body.size > 0
    THEN [kind |-> "buffer-json", duplex |-> ""]
    ELSE IF r.body.type # "undefined" /\ r.body.type = "object" /\ r.body.asyncIter
    THEN asyncIterableToBodyProps("body")
    ELSE asyncIterableToBodyProps("req")

\* lines 81-84
Protocol(r, o) ==
    LET forwardedProtocol == getFirstForwardedValue(Header(r.headers, "x-forwarded-proto"))
    IN  IF o.trustDownstreamProxy /\ Truthy(forwardedProtocol)
        THEN forwardedProtocol.s
        ELSE IF r.socket.encrypted THEN <<"h", "t", "t", "p", "s">> ELSE <<"h", "t", "t", "p">>

\* lines 87-90
Hostname(r, o) ==
    LET forwardedHostname == getFirstForwardedValue(Header(r.headers, "x-forwarded-host"))
    IN  IF o.trustDownstreamProxy /\ Truthy(forwardedHostname)
        THEN forwardedHostname
        ELSE Nullish(Header(r.headers, "host"), Header(r.headers, ":authority"))

\* line 93
Port(r, o) == getFirstForwardedValue(Header(r.headers, "x-forwarded-port"))

\* a composition that appends the forwarded port whatever the host holds
HostnamePortAlways(hostname, port) ==
    Template(hostname) \o (IF Truthy(port) THEN <<":">> \o port.s ELSE <<>>)

\* lines 95-96
HostnamePort(hostname, port) ==
    IF hostname.t = "str" /\ EndsWithPort(hostname.s)
    THEN hostname.s
    ELSE Template(hostname) \o (IF Truthy(port) THEN <<":">> \o port.s ELSE <<>>)

\* lines 111-114
ClientIp(r, o) ==
    LET forwardedClientIp == getFirstForwardedValue(Header(r.headers, "x-forwarded-for"))
    IN  IF o.trustDownstreamProxy /\ Truthy(forwardedClientIp)
        THEN forwardedClientIp
        ELSE r.socket.remoteAddress

\* line 100: req.method || 'GET' (an absent method is "")
Method(r) == IF r.method = "" THEN "GET" ELSE r.method

\* line 103
BodyAllowed(r, o) == Method(r) # "HEAD" /\ Method(r) # "GET" /\ o.skipBody = FALSE

\* lines 70-120: the Request built, as its url string, the authority inside it,
\* method, header list, body and duplex option, and the clientAddress annotation
\* (Undef when line 115 leaves it unset)
createRequest(r, o) ==
    LET authority == HostnamePort(Hostname(r, o), Port(r, o))
        body == IF BodyAllowed(r, o) THEN makeRequestBody(r) ELSE NoBody
        clientIp == ClientIp(r, o)
    IN  [url |-> Protocol(r, o) \o <<":", "/", "/">> \o authority \o r.url,
         authority |-> authority,
         method |-> Method(r),
         headers |-> makeRequestHeaders(r),
         body |-> body,
         clientAddress |-> IF Truthy(clientIp) THEN clientIp ELSE Undef]

----------------------------------------------------------------------------
(* Inputs of the request side *)

\* longest forwarded / Host header value of a createRequest input, in characters
MaxHostLen == 2

\* longest X-Forwarded-Port value of a createRequest input, in characters
MaxPortLen == 3

\* longest header value given to getFirstForwardedValue alone, in characters
MaxFwdLen == 3

\* most values of one repeated header
MaxArr == 2

\* most characters of a string body / own enumerable keys of an object body
MaxBodySize == 2

HostChars == {"a", "1", ":"}
PortChars == {"1", ":"}
FwdChars == {"a", ",", " "}

Https == <<"h", "t", "t", "p", "s">>
Http == <<"h", "t", "t", "p">>

NoRequest ==
    [url |-> <<>>, authority |-> <<>>, method |-> "", headers |-> <<>>,
     body |-> NoBody, clientAddress |-> Undef]

NoBodyValue == [type |-> "undefined", size |-> 0, asyncIter |-> FALSE]

NoReq ==
    [headers |-> <<>>, socket |-> [encrypted |-> FALSE, remoteAddress |-> Undef],
     method |-> "", url |-> <<"/">>, body |-> NoBodyValue]

DefaultOpts == [skipBody |-> FALSE, trustDownstreamProxy |-> TRUE]

\* the request side at rest, while a response is streamed
RequestIdle ==
    /\ rpc = "idle"
    /\ req = NoReq
    /\ opts = DefaultOpts
    /\ request = NoRequest
    /\ fwdIn = Undef
    /\ fwdOut = Undef

\* the response side at rest, while a request is built
StreamIdle ==
    /\ hasBody = FALSE
    /\ locked = FALSE
    /\ source = <<>>
    /\ srcLeft = <<>>
    /\ queue = <<>>
    /\ sstate = "readable"
    /\ closeRequested = FALSE
    /\ calls = <<>>
    /\ buffered = 0
    /\ connClosed = FALSE
    /\ onClose = FALSE
    /\ pc = "idle"
    /\ readResult = Pending
    /\ outcome = "none"
    /\ cancelCount = 0
    /\ logged = 0
    /\ failedAt = -1
    /\ closedBeforeCall = FALSE
    /\ closedEarly = FALSE
    /\ writesAfterCancel = 0

OptStrings(S, n) == {Undef} \cup {Str(x) : x \in SeqsUpTo(S, n)}

\* native messages whose forwarded headers, Host and socket vary
UrlInit ==
    /\ StreamIdle
    /\ rpc = "input"
    /\ \E host \in {Undef, Str(<<"a">>), Str(<<"a", ":", "1">>), Str(<<"a", ":", "1", ":", "1">>)},
          authority \in {Undef, Str(<<"b">>)},
          fproto \in {Undef, Arr(<<Https, Http>>)},
          fhost \in OptStrings(HostChars, MaxHostLen),
          fport \in OptStrings(PortChars, MaxPortLen),
          ffor \in {Undef, Str(<<"9", ",", " ", "8">>)},
          remote \in {Undef, Str(<<"7">>)},
          encrypted \in BOOLEAN :
        req = [headers |-> << [name |-> "host", value |-> host],
                              [name |-> ":authority", value |-> authority],
                              [name |-> "x-forwarded-proto", value |-> fproto],
                              [name |-> "x-forwarded-host", value |-> fhost],
                              [name |-> "x-forwarded-port", value |-> fport],
                              [name |-> "x-forwarded-for", value |-> ffor] >>,
               socket |-> [encrypted |-> encrypted, remoteAddress |-> remote],
               method |-> "GET", url |-> <<"/">>, body |-> NoBodyValue]
    /\ (Header(req.headers, "host").t # "undef" => Header(req.headers, ":authority").t = "undef")
    /\ opts \in [skipBody : {FALSE}, trustDownstreamProxy : BOOLEAN]
    /\ request = NoRequest
    /\ fwdIn = Undef
    /\ fwdOut = Undef

HeaderNames == {"x-test", "set-cookie"}
HeaderStrings == {<<"1">>, <<"2">>}

HeaderValues ==
    {Undef} \cup {Str(x) : x \in HeaderStrings}
            \cup {Arr(a) : a \in SeqsUpTo(HeaderStrings, MaxArr)}

\* header bags: each name at most once, in any order
HeaderBags ==
    {bag \in SeqsUpTo([name : HeaderNames, value : HeaderValues], Cardinality(HeaderNames)) :
        \A i, j \in 1..Len(bag) : i # j => bag[i].name # bag[j].name}

\* native messages whose header bag varies
HeadersInit ==
    /\ StreamIdle
    /\ rpc = "input"
    /\ \E bag \in HeaderBags : req = [NoReq EXCEPT !.headers = bag]
    /\ opts = DefaultOpts
    /\ request = NoRequest
    /\ fwdIn = Undef
    /\ fwdOut = Undef

BodyValues ==
    {NoBodyValue, [type |-> "null", size |-> 0, asyncIter |-> FALSE],
     [type |-> "number", size |-> 0, asyncIter |-> FALSE]}
    \cup [type : {"string"}, size : 0..MaxBodySize, asyncIter : {FALSE}]
    \cup [type : {"object"}, size : 0..MaxBodySize, asyncIter : BOOLEAN]

\* native messages whose method and pre-supplied body vary
BodyInit ==
    /\ StreamIdle
    /\ rpc = "input"
    /\ \E m \in {"", "GET", "HEAD", "POST", "PUT"}, b \in BodyValues :
        req = [NoReq EXCEPT !.method = m, !.body = b]
    /\ opts \in [skipBody : BOOLEAN, trustDownstreamProxy : {TRUE}]
    /\ request = NoRequest
    /\ fwdIn = Undef
    /\ fwdOut = Undef

\* header values as getFirstForwardedValue may receive them
ForwardedInit ==
    /\ StreamIdle
    /\ rpc = "input"
    /\ req = NoReq
    /\ opts = DefaultOpts
    /\ request = NoRequest
    /\ fwdIn \in OptStrings(FwdChars, MaxFwdLen)
                 \cup {Arr(a) : a \in SeqsUpTo(SeqsUpTo(FwdChars, MaxFwdLen - 1), MaxArr)}
    /\ fwdOut = Undef

\* NodeApp.createRequest(req, opts)
CreateRequest ==
    /\ rpc = "input"
    /\ rpc' = "output"
    /\ request' = createRequest(req, opts)
    /\ UNCHANGED <<req, opts, fwdIn, fwdOut, streamVars>>

\* getFirstForwardedValue(fwdIn)
GetFirstForwardedValue ==
    /\ rpc = "input"
    /\ rpc' = "output"
    /\ fwdOut' = getFirstForwardedValue(fwdIn)
    /\ UNCHANGED <<req, opts, request, fwdIn, streamVars>>

----------------------------------------------------------------------------
(* Specifications *)

Init == StreamInit /\ RequestIdle
Next == StreamNext

\* one writeResponse call and its environment
Spec == Init /\ [][Next]_vars

\* the same, where the event loop runs a ready continuation: the synchronous part
\* of a call, and the resumption of an await whose promise is settled
FairSpec == Spec /\ WF_vars(WriteResponse) /\ WF_vars(Resume)

\* createRequest over forwarded headers, Host and socket
SpecUrl == UrlInit /\ [][CreateRequest]_vars

\* createRequest over header bags
SpecHeaders == HeadersInit /\ [][CreateRequest]_vars

\* createRequest over methods and pre-supplied bodies
SpecBody == BodyInit /\ [][CreateRequest]_vars

\* getFirstForwardedValue over header values
SpecForwarded == ForwardedInit /\ [][GetFirstForwardedValue]_vars

----------------------------------------------------------------------------
(* Claims about writeResponse *)

IsPrefix(a, b) == Len(a) <= Len(b) /\ SubSeq(b, 1, Len(a)) = a

\* writeHead, write(c1), ..., write(cn), end()
ExpectedCalls(src) ==
    <<WriteHeadCall>> \o [i \in 1..Len(src) |-> WriteCall(src[i])] \o <<EndCall>>

\* the last call on the connection finalized it
Ended == calls # <<>> /\ calls[Len(calls)].op = "end"

\* C1: for a body stream that yields c1..cn and finishes, with no read or write
\* failure and no early close, the calls on the connection are at every moment a
\* prefix of writeHead, write(c1), ..., write(cn), end(), and are exactly that
\* sequence once writeResponse has completed.
C1_CallSequence ==
    (hasBody /\ pc \in {"awaitRead", "done"} /\ failedAt = -1 /\ ~closedEarly)
        => /\ IsPrefix(calls, ExpectedCalls(source))
           /\ calls[1] = WriteHeadCall
           /\ (pc = "done" => calls = ExpectedCalls(source))

C1_Witness ==
    /\ pc = "done" /\ hasBody /\ failedAt = -1 /\ ~closedEarly
    /\ source = <<"a", "b", "c">>
    /\ calls = <<WriteHeadCall, WriteCall("a"), WriteCall("b"), WriteCall("c"), EndCall>>

\* C3 as stated: for a response that has a body stream, every close of the
\* connection emitted once writeResponse has been called has caused exactly one
\* cancel() on the reader, and the call never throws.
C3_CancelOnEveryClose ==
    (hasBody /\ connClosed /\ ~closedBeforeCall)
        => (cancelCount = 1 /\ outcome # "threw")

\* C3 amended: when getReader() succeeded (so that the 'close' handler is
\* registered), every close emitted once writeResponse has been called has caused
\* exactly one cancel() on the reader, there is no cancel() without a close, a
\* rejected cancel() is logged and nothing else, and the close handler changes
\* neither the calls made on the connection nor the completion of writeResponse.
C3_CancelOnCloseWithReader ==
    /\ [](/\ (onClose /\ connClosed /\ ~closedBeforeCall) => cancelCount = 1
          /\ (~connClosed \/ ~onClose) => cancelCount = 0
          /\ logged <= cancelCount
          /\ outcome # "threw")
    /\ [][connClosed' # connClosed
            => (calls' = calls /\ pc' = pc /\ outcome' = outcome /\ failedAt' = failedAt)]_vars

C3_Witness ==
    /\ onClose /\ connClosed /\ ~closedBeforeCall /\ closedEarly
    /\ cancelCount = 1 /\ logged = 1
    /\ pc = "done" /\ outcome = "returned"

\* C4: once obtaining the reader, a read or a write has failed, no chunk is written
\* any more, the last call on the connection is end('Internal server error'), the
\* only finalization, and writeResponse has returned without throwing.
C4_FailureContained ==
    failedAt >= 0
        => /\ pc = "done"
           /\ outcome = "returned"
           /\ Len(calls) = failedAt + 1
           /\ calls[Len(calls)] = EndErrorCall
           /\ \A i \in 1..(Len(calls) - 1) : calls[i].op # "end"

C4_Witness ==
    /\ failedAt = 3
    /\ readResult.k = "error"
    /\ calls = <<WriteHeadCall, WriteCall("a"), WriteCall("b"), EndErrorCall>>

\* C5: the chunks handed to the connection and not yet flushed never exceed one.
C5_OneChunkInFlight == buffered <= 1

\* a read is outstanding and the body has finished or failed, or close has
\* cancelled the reader
StreamSettles ==
    pc = "awaitRead" /\ (closeRequested \/ sstate # "readable" \/ cancelCount > 0)

\* C10: under fair scheduling, a writeResponse call whose body stream finishes or
\* fails, or whose connection emits close after streaming started, eventually
\* finalizes the connection and completes; after the cancel of such a close at
\* most one further chunk is written.
C10_EventuallyFinalized ==
    /\ StreamSettles ~> (pc = "done" /\ Ended /\ outcome = "returned")
    /\ [](writesAfterCancel <= 1)

C10_Witness ==
    /\ pc = "done" /\ Ended
    /\ cancelCount = 1 /\ closedEarly
    /\ writesAfterCancel = 1

----------------------------------------------------------------------------
(* Claims about createRequest and its helpers *)

\* the part of s before its first comma, stated by position
TokenBeforeComma(s) ==
    LET commas == {i \in 1..Len(s) : s[i] = ","}
        stop == IF commas = {} THEN Len(s) + 1
                ELSE CHOOSE i \in commas : \A j \in commas : i <= j
    IN  SubSeq(s, 1, stop - 1)

\* s without its leading and trailing whitespace, stated by position
WithoutOuterSpace(s) ==
    LET solid == {i \in 1..Len(s) : s[i] \notin Whitespace}
    IN  IF solid = {} THEN <<>>
        ELSE SubSeq(s, CHOOSE i \in solid : \A j \in solid : i <= j,
                       CHOOSE i \in solid : \A j \in solid : i >= j)

\* the first comma-delimited token of a header value, trimmed; an array counts as
\* its elements joined by commas, so its first token is that of its first element
FirstTrimmedToken(v) ==
    IF v.t = "arr"
    THEN (IF v.a = <<>> THEN <<>> ELSE WithoutOuterSpace(TokenBeforeComma(v.a[1])))
    ELSE WithoutOuterSpace(TokenBeforeComma(v.s))

\* C7 as stated: getFirstForwardedValue returns the first comma-delimited token,
\* trimmed, and undefined when the input is absent or that token is empty.
C7_FirstValueOrUndefined ==
    rpc = "output"
        => fwdOut = IF fwdIn.t = "undef" \/ FirstTrimmedToken(fwdIn) = <<>>
                    THEN Undef
                    ELSE Str(FirstTrimmedToken(fwdIn))

\* C7 amended: getFirstForwardedValue returns undefined only when the input is
\* absent; otherwise it returns the first comma-delimited token, trimmed, as a
\* string, which is the empty string when that token is empty after trimming.
C7_FirstValueOrEmpty ==
    rpc = "output"
        => fwdOut = IF fwdIn.t = "undef" THEN Undef ELSE Str(FirstTrimmedToken(fwdIn))

C7_Witness ==
    /\ rpc = "output"
    /\ fwdIn = Arr(<< <<" ", "a">>, <<"a", ",">> >>)
    /\ fwdOut = Str(<<"a">>)

\* the values of a header list under one name, in list order
EntriesUnder(entries, name) ==
    LET picked == SelectSeq(entries, LAMBDA e : e.name = name)
    IN  [i \in 1..Len(picked) |-> picked[i].value]

\* the values a native header value stands for
ValuesOf(v) == IF v.t = "undef" THEN <<>> ELSE IF v.t = "arr" THEN v.a ELSE <<v.s>>

\* C8: in the header list makeRequestHeaders builds, every native header has
\* exactly its values as entries under its name, in order (N for an array of N,
\* one for a string, none for undefined), and there are no other entries.
C8_Multiplicity ==
    rpc = "output"
        => /\ \A i \in 1..Len(req.headers) :
                EntriesUnder(request.headers, req.headers[i].name)
                    = ValuesOf(req.headers[i].value)
           /\ \A k \in 1..Len(request.headers) :
                \E i \in 1..Len(req.headers) : req.headers[i].name = request.headers[k].name

C8_Witness ==
    /\ rpc = "output"
    /\ req.headers = << [name |-> "set-cookie", value |-> Str(<<"2">>)],
                        [name |-> "x-test", value |-> Arr(<< <<"1">>, <<"2">> >>)] >>
    /\ request.headers = << [name |-> "set-cookie", value |-> <<"2">>],
                            [name |-> "x-test", value |-> <<"1">>],
                            [name |-> "x-test", value |-> <<"2">>] >>

\* the body the claim's priority order picks
ClaimedBody(b) ==
    IF b.type = "string" /\ b.size > 0 THEN [kind |-> "buffer-utf8", duplex |-> ""]
    ELSE IF b.type = "object" /\ b.asyncIter THEN [kind |-> "body", duplex |-> "half"]
    ELSE IF b.type = "object" /\ b.size > 0 THEN [kind |-> "buffer-json", duplex |-> ""]
    ELSE [kind |-> "req", duplex |-> "half"]

\* C9: when body attachment is allowed, a non-empty string is buffered as UTF-8, a
\* non-empty plain object is buffered as JSON, a value with the async sequence
\* protocol is streamed as it is and never serialized, anything else streams the
\* native request; the half-duplex marker is set exactly for streamed bodies.
C9_BodyPriority ==
    (rpc = "output" /\ BodyAllowed(req, opts))
        => /\ request.body = ClaimedBody(req.body)
           /\ (request.body.duplex = "half") <=> (request.body.kind \in {"body", "req"})

\* the native message without its X-Forwarded-* headers
WithoutForwarded(r) ==
    [r EXCEPT !.headers = SelectSeq(r.headers,
        LAMBDA h : h.name \notin {"x-forwarded-proto", "x-forwarded-host",
                                  "x-forwarded-port", "x-forwarded-for"})]

\* C2: with trustDownstreamProxy = false the url and the client address are those
\* of the same message without its forwarded headers: scheme from the socket's
\* encrypted flag, authority from Host / :authority, address from the socket.
C2_ForwardedIgnored ==
    (rpc = "output" /\ ~opts.trustDownstreamProxy)
        => /\ request.url = createRequest(WithoutForwarded(req), opts).url
           /\ request.url = (IF req.socket.encrypted THEN Https ELSE Http)
                            \o <<":", "/", "/">>
                            \o Template(Nullish(Header(req.headers, "host"),
                                                Header(req.headers, ":authority")))
                            \o req.url
           /\ request.clientAddress = req.socket.remoteAddress

\* s ends with ":" and one or more digits
HasPortSuffix(s) ==
    \E k \in 1..(Len(s) - 1) :
        /\ s[Len(s) - k] = ":"
        /\ \A j \in (Len(s) - k + 1)..Len(s) : s[j] \in Digits

\* s without its last ":<digits>"
DropPortSuffix(s) ==
    SubSeq(s, 1, (CHOOSE i \in 1..Len(s) :
                    s[i] = ":" /\ \A j \in (i + 1)..Len(s) : s[j] \in Digits) - 1)

RECURSIVE PortSuffixes(_)
\* how many ":<digits>" groups end s
PortSuffixes(s) == IF HasPortSuffix(s) THEN 1 + PortSuffixes(DropPortSuffix(s)) ELSE 0

\* the host createRequest resolves with trust: the first forwarded host when there
\* is one, else Host, else :authority
ResolvedHost(r) ==
    LET fh == Header(r.headers, "x-forwarded-host")
    IN  IF fh.t # "undef" /\ FirstTrimmedToken(fh) # <<>>
        THEN Str(FirstTrimmedToken(fh))
        ELSE Nullish(Header(r.headers, "host"), Header(r.headers, ":authority"))

\* the first forwarded port, <<>> when there is none
ForwardedPort(r) ==
    LET fp == Header(r.headers, "x-forwarded-port")
    IN  IF fp.t = "undef" THEN <<>> ELSE FirstTrimmedToken(fp)

\* the authority by the claim's three cases
ClaimedAuthority(r) ==
    LET host == ResolvedHost(r)
        port == ForwardedPort(r)
    IN  IF host.t = "str" /\ HasPortSuffix(host.s) THEN host.s
        ELSE IF port # <<>> THEN Template(host) \o <<":">> \o port
        ELSE Template(host)

\* C6 as stated: with trust, the authority is the host when it ends with a port,
\* else host:port when a forwarded port is present, else the host; and for every
\* input it carries at most one port suffix.
C6_AuthorityOnePort ==
    (rpc = "output" /\ opts.trustDownstreamProxy)
        => /\ request.authority = ClaimedAuthority(req)
           /\ PortSuffixes(request.authority) <= 1

\* C6 amended: the three cases as stated; the authority carries at most one port
\* suffix for every input whose resolved host carries at most one and whose
\* forwarded port, when present, is digits only.
C6_AuthorityOnePortWellFormed ==
    (rpc = "output" /\ opts.trustDownstreamProxy)
        => /\ request.authority = ClaimedAuthority(req)
           /\ (/\ PortSuffixes(Template(ResolvedHost(req))) <= 1
               /\ \A i \in 1..Len(ForwardedPort(req)) : ForwardedPort(req)[i] \in Digits)
                  => PortSuffixes(request.authority) <= 1

C6_Witness ==
    /\ rpc = "output" /\ opts.trustDownstreamProxy
    /\ Header(req.headers, "x-forwarded-host") = Str(<<"a">>)
    /\ Header(req.headers, "x-forwarded-port") = Str(<<"1", "1">>)
    /\ Header(req.headers, "host") = Str(<<"a", ":", "1">>)
    /\ request.authority = <<"a", ":", "1", "1">>
====
